---------------------------- MODULE Spec2Model ----------------------------
(***************************************************************************)
(* A model of witch (src/main.py): a `which` with fuzzy suggestions.       *)
(*                                                                         *)
(* A Python str is a sequence of characters.  A character is a TLA+        *)
(* string: the character itself for printable ASCII, and a name for the    *)
(* others ("ESC" = U+001B, "BEL" = U+0007, "ZW" = U+200B zero width space, *)
(* "WIDE" = U+4E2D, a double-width ideograph).                             *)
(*                                                                         *)
(* The library calls main.py makes are modelled by what the libraries do:  *)
(* difflib.SequenceMatcher / get_close_matches (CPython), shutil.which     *)
(* (CPython, POSIX branch), wcwidth.wcswidth and re.sub.  difflib's        *)
(* "autojunk" heuristic only acts on a second sequence of 200 or more      *)
(* elements; every string of this model is far shorter, so no element is   *)
(* ever junk or "popular".                                                 *)
(***************************************************************************)
EXTENDS Integers, Sequences, FiniteSets, TLC

VARIABLES
    \* ---- one invocation of witch(command) ----
    environ,        \* the process environment: [set |-> PATH is set, val |-> its value]
    files,          \* the entries of the directories: [dir, name, exec]
    command,        \* witch's argument
    pc,             \* where the invocation stands
    path,           \* line 101: the exact lookup's result (None = NoPath)
    executables,    \* line 108: the candidate set, in its iteration order
    matches,        \* line 110: the ranked list
    out,            \* the lines printed on standard output
    ret,            \* the value returned
    visited,        \* the positions the invocation went through, in order
    \* ---- a call of one of the pure functions ----
    fn,             \* which function, and whether it has returned
    arg1, arg2,     \* its arguments
    res             \* its result

wvars == <<environ, files, command, pc, path, executables, matches,
           out, ret, visited>>
fvars == <<fn, arg1, arg2, res>>
vars == <<wvars, fvars>>

(***************************************************************************)
(* Characters and strings                                                  *)
(***************************************************************************)

\* The characters of the model in code point order (Python compares str by
\* code point).
CodeOrder ==
    <<"BEL", "ESC", " ", "(", ")", "-", ".", "/", "0", "1", "2", "5", "9", ":",
      ";", "A", "C", "D", "H", "L", "P", "S", "T", "[", "a", "b", "c", "d", "e",
      "f", "g", "h", "i", "l", "m", "n", "o", "s", "t", "u", "y", "|", "ZW",
      "WIDE">>

Ord(c) == CHOOSE k \in 1..Len(CodeOrder) : CodeOrder[k] = c

Min(S) == CHOOSE x \in S : \A y \in S : x <= y
Max(S) == CHOOSE x \in S : \A y \in S : x >= y

\* Python's s[lo:hi] for 0 <= lo, hi <= len(s).
Slice(s, lo, hi) == IF hi <= lo THEN <<>> ELSE SubSeq(s, lo + 1, hi)

\* Python's " " * n (the empty string when n <= 0).
Spaces(n) == [k \in 1..(IF n > 0 THEN n ELSE 0) |-> " "]

Dashes(n) == [k \in 1..(IF n > 0 THEN n ELSE 0) |-> "-"]

\* Python's s < t on str: lexicographic by code point.
RECURSIVE StrLess(_, _)
StrLess(s, t) ==
    IF t = <<>> THEN FALSE
    ELSE IF s = <<>> THEN TRUE
    ELSE IF Head(s) # Head(t) THEN Ord(Head(s)) < Ord(Head(t))
    ELSE StrLess(Tail(s), Tail(t))

\* All strings over alphabet A of length lo..hi.
StringsOver(A, lo, hi) == UNION {[1..n -> A] : n \in lo..hi}

(***************************************************************************)
(* difflib.SequenceMatcher(None, a, b), for sequences under 200 elements   *)
(***************************************************************************)

\* j2len[j] when the scan is at a[i]: the length of the common run that ends
\* at a[i], b[j] and stays inside a[alo:], b[blo:].
RECURSIVE RunLen(_, _, _, _, _, _)
RunLen(a, b, alo, blo, i, j) ==
    IF a[i + 1] # b[j + 1] THEN 0
    ELSE 1 + (IF i > alo /\ j > blo THEN RunLen(a, b, alo, blo, i - 1, j - 1) ELSE 0)

\* find_longest_match(alo, ahi, blo, bhi): <<i, j, k>>, the longest block
\* a[i:i+k] = b[j:j+k]; of the longest, the one the scan (i ascending, then j
\* ascending, replaced only by a strictly longer run) meets first.
FindLongestMatch(a, b, alo, ahi, blo, bhi) ==
    LET cells == {c \in (alo..(ahi - 1)) \X (blo..(bhi - 1)) :
                     RunLen(a, b, alo, blo, c[1], c[2]) > 0}
    IN  IF cells = {} THEN <<alo, blo, 0>>
        ELSE LET k    == Max({RunLen(a, b, alo, blo, c[1], c[2]) : c \in cells})
                 best == {c \in cells : RunLen(a, b, alo, blo, c[1], c[2]) = k}
                 i    == Min({c[1] : c \in best})
                 j    == Min({c[2] : c \in {d \in best : d[1] = i}})
             IN  <<i - k + 1, j - k + 1, k>>

\* The blocks get_matching_blocks collects from its queue, sorted: the
\* longest match, then the same to its left and to its right.
RECURSIVE BlocksIn(_, _, _, _, _, _)
BlocksIn(a, b, alo, ahi, blo, bhi) ==
    LET x == FindLongestMatch(a, b, alo, ahi, blo, bhi)
        i == x[1]
        j == x[2]
        k == x[3]
    IN  IF k = 0 THEN <<>>
        ELSE (IF alo < i /\ blo < j THEN BlocksIn(a, b, alo, i, blo, j) ELSE <<>>)
             \o <<x>>
             \o (IF i + k < ahi /\ j + k < bhi
                 THEN BlocksIn(a, b, i + k, ahi, j + k, bhi) ELSE <<>>)

\* get_matching_blocks' second loop: adjacent blocks are merged.
RECURSIVE Collapse(_, _)
Collapse(blocks, cur) ==
    IF blocks = <<>> THEN (IF cur[3] > 0 THEN <<cur>> ELSE <<>>)
    ELSE LET nxt == Head(blocks)
         IN  IF cur[1] + cur[3] = nxt[1] /\ cur[2] + cur[3] = nxt[2]
             THEN Collapse(Tail(blocks), <<cur[1], cur[2], cur[3] + nxt[3]>>)
             ELSE (IF cur[3] > 0 THEN <<cur>> ELSE <<>>) \o Collapse(Tail(blocks), nxt)

\* get_matching_blocks(): the blocks, then the sentinel (len(a), len(b), 0).
GetMatchingBlocks(a, b) ==
    Collapse(BlocksIn(a, b, 0, Len(a), 0, Len(b)), <<0, 0, 0>>)
        \o <<(<<Len(a), Len(b), 0>>)>>

\* get_opcodes(): <<tag, i1, i2, j1, j2>>, turning a into b.
RECURSIVE OpcodesFrom(_, _, _)
OpcodesFrom(blocks, i, j) ==
    IF blocks = <<>> THEN <<>>
    ELSE LET ai   == Head(blocks)[1]
             bj   == Head(blocks)[2]
             size == Head(blocks)[3]
             tag  == IF i < ai /\ j < bj THEN "replace"
                     ELSE IF i < ai THEN "delete"
                     ELSE IF j < bj THEN "insert"
                     ELSE ""
         IN  (IF tag # "" THEN <<(<<tag, i, ai, j, bj>>)>> ELSE <<>>)
             \o (IF size > 0 THEN <<(<<"equal", ai, ai + size, bj, bj + size>>)>> ELSE <<>>)
             \o OpcodesFrom(Tail(blocks), ai + size, bj + size)

GetOpcodes(a, b) == OpcodesFrom(GetMatchingBlocks(a, b), 0, 0)

RECURSIVE SumSizes(_)
SumSizes(blocks) ==
    IF blocks = <<>> THEN 0 ELSE Head(blocks)[3] + SumSizes(Tail(blocks))

\* A variant of CalculateRatio that gives 0.0, not 1.0, when length is 0.
CalculateRatioZeroWhenEmpty(m, length) ==
    IF length > 0 THEN <<2 * m, length>> ELSE <<0, 1>>

\* _calculate_ratio(matches, length): 2.0 * matches / length, and 1.0 when
\* length is 0.  A ratio is the exact fraction <<numerator, denominator>>:
\* on these sizes float division and comparison agree with the fractions.
CalculateRatio(m, length) == IF length > 0 THEN <<2 * m, length>> ELSE <<1, 1>>

\* ratio(): 2.0 * M / T, M the characters in matching blocks.
Ratio(a, b) == CalculateRatio(SumSizes(GetMatchingBlocks(a, b)), Len(a) + Len(b))

Count(s, c) == Cardinality({k \in 1..Len(s) : s[k] = c})

RECURSIVE SumMin(_, _, _)
SumMin(cs, a, b) ==
    IF cs = {} THEN 0
    ELSE LET c == CHOOSE x \in cs : TRUE
         IN  Min({Count(a, c), Count(b, c)}) + SumMin(cs \ {c}, a, b)

\* quick_ratio(): the characters the two have in common as multisets.
QuickRatio(a, b) ==
    CalculateRatio(SumMin({a[k] : k \in 1..Len(a)}, a, b), Len(a) + Len(b))

\* real_quick_ratio(): from the lengths alone.
RealQuickRatio(a, b) == CalculateRatio(Min({Len(a), Len(b)}), Len(a) + Len(b))

\* x >= y and x > y on ratios.
RatioGE(x, y) == x[1] * y[2] >= y[1] * x[2]
RatioGT(x, y) == x[1] * y[2] > y[1] * x[2]


(***************************************************************************)
(* difflib.get_close_matches(word, possibilities, n, cutoff)               *)
(***************************************************************************)

\* A variant of TupleLess that compares the scores only, as a sort keyed on
\* the score would: equal scores then stay in the order they came in.
TupleLessScoreOnly(p, q) == RatioGT(q[1], p[1])

\* Python's (s1, x1) < (s2, x2) on (score, name) tuples.
TupleLess(p, q) ==
    \/ RatioGT(q[1], p[1])
    \/ (~RatioGT(p[1], q[1]) /\ StrLess(p[2], q[2]))

\* The list `sorted`, largest first, with p put at its place.
RECURSIVE InsertDesc(_, _)
InsertDesc(sorted, p) ==
    IF sorted = <<>> THEN <<p>>
    ELSE IF TupleLess(Head(sorted), p) THEN <<p>> \o sorted
    ELSE <<Head(sorted)>> \o InsertDesc(Tail(sorted), p)

\* heapq.nlargest(n, items): the n largest items, largest first.  The items
\* are taken in the order given and only the n largest so far are kept.
RECURSIVE NLargestFrom(_, _, _)
NLargestFrom(n, items, kept) ==
    IF items = <<>> THEN kept
    ELSE LET more == InsertDesc(kept, Head(items))
         IN  NLargestFrom(n, Tail(items),
                          IF Len(more) > n THEN SubSeq(more, 1, n) ELSE more)

NLargest(n, items) == NLargestFrom(n, items, <<>>)

\* A variant of IsClose that stops at the two quick upper bounds.
IsCloseQuickOnly(word, x, cutoff) ==
    /\ RatioGE(RealQuickRatio(x, word), cutoff)
    /\ RatioGE(QuickRatio(x, word), cutoff)

\* The test of get_close_matches' loop: s.set_seq2(word); s.set_seq1(x), so
\* the candidate x is the first sequence and the word the second.
IsClose(word, x, cutoff) ==
    /\ RatioGE(RealQuickRatio(x, word), cutoff)
    /\ RatioGE(QuickRatio(x, word), cutoff)
    /\ RatioGE(Ratio(x, word), cutoff)

\* The (score, x) list the loop builds, in the order of `possibilities`.
RECURSIVE Scored(_, _, _)
Scored(word, possibilities, cutoff) ==
    IF possibilities = <<>> THEN <<>>
    ELSE LET x == Head(possibilities)
         IN  (IF IsClose(word, x, cutoff) THEN <<(<<Ratio(x, word), x>>)>> ELSE <<>>)
             \o Scored(word, Tail(possibilities), cutoff)

GetCloseMatches(word, possibilities, n, cutoff) ==
    LET best == NLargest(n, Scored(word, possibilities, cutoff))
    IN  [k \in 1..Len(best) |-> best[k][2]]

(***************************************************************************)
(* main.py's helpers                                                       *)
(***************************************************************************)

ANSI_GREEN == <<"ESC", "[", "9", "2", "m">>
ANSI_RED == <<"ESC", "[", "9", "1", "m">>
ANSI_MAGENTA == <<"ESC", "[", "9", "5", "m">>
ANSI_RESET == <<"ESC", "[", "0", "m">>

\* The class [0-9;] of ANSI_ESCAPE_RE.
IsParam(c) == c \in {"0", "1", "2", "5", "9", ";"}

\* The end of the longest run of [0-9;] that starts at (1-based) k.
RECURSIVE ParamsEnd(_, _)
ParamsEnd(text, k) ==
    IF k <= Len(text) /\ IsParam(text[k]) THEN ParamsEnd(text, k + 1) ELSE k

\* ANSI_ESCAPE_RE.match at k: the position after the match of
\* \033\[[0-9;]*m that starts at k, or 0 when none starts there.
MatchEnd(text, k) ==
    IF k + 1 <= Len(text) /\ text[k] = "ESC" /\ text[k + 1] = "["
    THEN LET e == ParamsEnd(text, k + 2)
         IN  IF e <= Len(text) /\ text[e] = "m" THEN e + 1 ELSE 0
    ELSE 0

\* ANSI_ESCAPE_RE.sub('', text) from position k on: the matches, leftmost
\* first and not overlapping, are dropped.
RECURSIVE SubFrom(_, _)
SubFrom(text, k) ==
    IF k > Len(text) THEN <<>>
    ELSE IF MatchEnd(text, k) > 0 THEN SubFrom(text, MatchEnd(text, k))
    ELSE <<text[k]>> \o SubFrom(text, k + 1)

strip_ansi(text) == SubFrom(text, 1)

\* wcwidth.wcwidth(c): -1 for a control character, 0 for a zero-width
\* character, 2 for a wide one, 1 otherwise.
WcWidth(c) ==
    IF c \in {"BEL", "ESC"} THEN -1
    ELSE IF c = "ZW" THEN 0
    ELSE IF c = "WIDE" THEN 2
    ELSE 1

RECURSIVE SumWidths(_)
SumWidths(text) ==
    IF text = <<>> THEN 0 ELSE WcWidth(Head(text)) + SumWidths(Tail(text))

\* wcwidth.wcswidth(text): -1 as soon as one character is not printable,
\* else the sum of the characters' widths.
wcswidth(text) ==
    IF \E k \in 1..Len(text) : WcWidth(text[k]) < 0 THEN -1 ELSE SumWidths(text)

\* A variant of HighlightOp without the "insert" branch.
HighlightOpNoInsert(op, suggestion) ==
    LET piece == Slice(suggestion, op[4], op[5])
    IN  IF op[1] = "equal" THEN ANSI_GREEN \o piece \o ANSI_RESET
        ELSE IF op[1] = "replace" THEN ANSI_RED \o piece \o ANSI_RESET
        ELSE <<>>

\* A variant of HighlightOp that styles an "insert" like a "replace".
HighlightOpInsertAsReplace(op, suggestion) ==
    LET piece == Slice(suggestion, op[4], op[5])
    IN  IF op[1] = "equal" THEN ANSI_GREEN \o piece \o ANSI_RESET
        ELSE IF op[1] \in {"replace", "insert"} THEN ANSI_RED \o piece \o ANSI_RESET
        ELSE <<>>

\* The text highlight_differences appends for one opcode.
HighlightOp(op, suggestion) ==
    LET piece == Slice(suggestion, op[4], op[5])
    IN  IF op[1] = "equal" THEN ANSI_GREEN \o piece \o ANSI_RESET
        ELSE IF op[1] = "replace" THEN ANSI_RED \o piece \o ANSI_RESET
        ELSE IF op[1] = "insert" THEN ANSI_MAGENTA \o piece \o ANSI_RESET
        ELSE <<>>

RECURSIVE HighlightOps(_, _)
HighlightOps(ops, suggestion) ==
    IF ops = <<>> THEN <<>>
    ELSE HighlightOp(Head(ops), suggestion) \o HighlightOps(Tail(ops), suggestion)

highlight_differences(input_word, suggestion) ==
    HighlightOps(GetOpcodes(input_word, suggestion), suggestion)

pad_string(text, width) == text \o Spaces(width - wcswidth(strip_ansi(text)))

(***************************************************************************)
(* The operating system as witch sees it                                   *)
(***************************************************************************)

\* Optional[str]: None is <<>>, a value s is <<s>>.
None == <<>>
Some(s) == <<s>>

DirA == <<"/", "a">>
DirB == <<"/", "b">>
DirG == <<"/", "g">>
DirU == <<"/", "u">>

\* The directories that exist; DirU can be searched but not listed (mode
\* --x), so os.listdir raises PermissionError on it.
Directories == {DirA, DirB, DirG, DirU}
Unlistable == {DirU}

\* os.confstr("CS_PATH") / os.defpath: what shutil.which searches when PATH
\* is not set.
DefaultPath == DirG

git == <<"g", "i", "t">>
gti == <<"g", "t", "i">>
ab == <<"a", "b">>

\* str.split(sep) from (1-based) position k on, `cur` the piece being read.
RECURSIVE SplitFrom(_, _, _, _)
SplitFrom(text, sep, k, cur) ==
    IF k > Len(text) THEN <<cur>>
    ELSE IF text[k] = sep THEN <<cur>> \o SplitFrom(text, sep, k + 1, <<>>)
    ELSE SplitFrom(text, sep, k + 1, Append(cur, text[k]))

\* text.split(os.pathsep)
Split(text) == SplitFrom(text, ":", 1, <<>>)

\* os.path.join(dir, name), posixpath.
PathJoin(dir, name) ==
    IF dir = <<>> THEN name
    ELSE IF dir[Len(dir)] = "/" THEN dir \o name
    ELSE dir \o <<"/">> \o name

\* shutil._access_check(name, F_OK | X_OK): name exists, may be executed and is
\* no directory.
AccessCheck(fs, name) == \E f \in fs : f.exec /\ PathJoin(f.dir, f.name) = name

\* The first directory of dirs in which cmd passes the access check.
RECURSIVE FirstHit(_, _, _)
FirstHit(fs, dirs, cmd) ==
    IF dirs = <<>> THEN None
    ELSE IF AccessCheck(fs, PathJoin(Head(dirs), cmd))
         THEN Some(PathJoin(Head(dirs), cmd))
         ELSE FirstHit(fs, Tail(dirs), cmd)

\* shutil.which(cmd) on POSIX: a cmd with a directory part is looked up
\* directly; an unset PATH is replaced by the default path; an empty PATH
\* matches nothing.
Which(env, fs, cmd) ==
    IF \E k \in 1..Len(cmd) : cmd[k] = "/"
    THEN (IF AccessCheck(fs, cmd) THEN Some(cmd) ELSE None)
    ELSE LET p == IF env.set THEN env.val ELSE DefaultPath
         IN  IF p = <<>> THEN None ELSE FirstHit(fs, Split(p), cmd)

\* A variant of SearchPaths that falls back on the default path, as
\* shutil.which does, when PATH is not set.
SearchPathsDefault(env) == Split(IF env.set THEN env.val ELSE DefaultPath)

\* os.environ.get("PATH", "").split(os.pathsep)
SearchPaths(env) == Split(IF env.set THEN env.val ELSE <<>>)

\* os.path.isdir(p)
IsDir(p) == p \in Directories

\* os.listdir(p), for a directory that can be listed.
ListDir(fs, p) == {f.name : f \in {g \in fs : g.dir = p}}

\* Line 108: {f for p in paths if os.path.isdir(p) for f in os.listdir(p)}
ListingRaises(paths) == \E k \in 1..Len(paths) : IsDir(paths[k]) /\ paths[k] \in Unlistable
Enumerated(fs, paths) ==
    UNION {ListDir(fs, paths[k]) : k \in {i \in 1..Len(paths) : IsDir(paths[i])}}

\* The orders in which iterating over a set may yield its elements.
Orders(S) ==
    {s \in [1..Cardinality(S) -> S] : \A i, j \in 1..Cardinality(S) : i # j => s[i] # s[j]}

(***************************************************************************)
(* witch(command)                                                          *)
(***************************************************************************)

N == 5
CutoffNum == 4
CutoffDen == 10
Cutoff == <<CutoffNum, CutoffDen>>
cmd_width == 20
path_width == 50

DidYouMean ==
    <<"C", "o", "m", "m", "a", "n", "d", " ", "n", "o", "t", " ", "f", "o",
      "u", "n", "d", ".", " ", "D", "i", "d", " ", "y", "o", "u", " ", "m",
      "e", "a", "n", ":">>

SuggestedCommand ==
    <<"S", "u", "g", "g", "e", "s", "t", "e", "d", " ", "C", "o", "m", "m",
      "a", "n", "d">>

Location ==
    <<"L", "o", "c", "a", "t", "i", "o", "n">>

NotFoundInPath ==
    <<"(", "n", "o", "t", " ", "f", "o", "u", "n", "d", " ", "i", "n", " ",
      "P", "A", "T", "H", ")">>

NoCloseMatches ==
    <<"C", "o", "m", "m", "a", "n", "d", " ", "n", "o", "t", " ", "f", "o",
      "u", "n", "d", " ", "a", "n", "d", " ", "n", "o", " ", "c", "l", "o",
      "s", "e", " ", "m", "a", "t", "c", "h", "e", "s", ".">>

Bar == <<" ", "|", " ">>

\* Lines 119-120: the table's header and its separator.
HeaderLine == pad_string(SuggestedCommand, cmd_width) \o Bar \o pad_string(Location, path_width)
SeparatorLine == Dashes(cmd_width + path_width + 3)

\* Line 124: shutil.which(match) or "(not found in PATH)"
MatchPath(env, fs, match) ==
    IF Which(env, fs, match) # None THEN Which(env, fs, match)[1] ELSE NotFoundInPath

\* Lines 123-125: the row printed for one match.
Row(env, fs, cmd, match) ==
    pad_string(highlight_differences(cmd, match), cmd_width) \o Bar
        \o pad_string(MatchPath(env, fs, match), path_width)

\* A variant of Rows that leaves out the matches the exact lookup does not
\* resolve.
RowsResolvedOnly(env, fs, cmd, ms) ==
    LET resolved == SelectSeq(ms, LAMBDA m : Which(env, fs, m) # None)
    IN  [k \in 1..Len(resolved) |-> Row(env, fs, cmd, resolved[k])]

\* Lines 122-125: the rows, one per match, in the list's order.
Rows(env, fs, cmd, ms) == [k \in 1..Len(ms) |-> Row(env, fs, cmd, ms[k])]

\* Lines 112-125: everything printed when there are matches.  The first
\* print writes "\nCommand not found. Did you mean:\n" and a newline: an empty
\* line, the sentence, an empty line.
Table(env, fs, cmd, ms) ==
    <<(<<>>), DidYouMean, (<<>>), HeaderLine, SeparatorLine>> \o Rows(env, fs, cmd, ms)

\* The pure-function variables while witch runs, and the reverse.
FnIdle == fn = "witch" /\ arg1 = <<>> /\ arg2 = <<>> /\ res = <<>>

\* Line 101: path = shutil.which(command)
ExactLookup ==
    /\ pc = "START"
    /\ path' = Which(environ, files, command)
    /\ pc' = "EXACT_LOOKUP"
    /\ visited' = Append(visited, "EXACT_LOOKUP")
    /\ UNCHANGED <<environ, files, command, executables, matches, out, ret, fvars>>

\* Lines 102-103: if path: print(path)
PrintPath ==
    /\ pc = "EXACT_LOOKUP"
    /\ path # None
    /\ out' = Append(out, path[1])
    /\ pc' = "PRINT_PATH"
    /\ visited' = Append(visited, "PRINT_PATH")
    /\ UNCHANGED <<environ, files, command, path, executables, matches, ret, fvars>>

\* A variant of ReturnPath without the return: the run goes on to line 107.
ReturnPathFallsThrough ==
    /\ pc = "PRINT_PATH"
    /\ ~ListingRaises(SearchPaths(environ))
    /\ executables' = Enumerated(files, SearchPaths(environ))
    /\ pc' = "ENUMERATE"
    /\ visited' = Append(visited, "ENUMERATE")
    /\ UNCHANGED <<environ, files, command, path, matches, out, ret, fvars>>

\* Line 104: return path
ReturnPath ==
    /\ pc = "PRINT_PATH"
    /\ ret' = path
    /\ pc' = "END"
    /\ visited' = Append(visited, "END")
    /\ UNCHANGED <<environ, files, command, path, executables, matches, out, fvars>>

\* Lines 107-108: the candidate set, when every directory can be listed.
Enumerate ==
    /\ pc = "EXACT_LOOKUP"
    /\ path = None
    /\ ~ListingRaises(SearchPaths(environ))
    /\ executables' = Enumerated(files, SearchPaths(environ))
    /\ pc' = "ENUMERATE"
    /\ visited' = Append(visited, "ENUMERATE")
    /\ UNCHANGED <<environ, files, command, path, matches, out, ret, fvars>>

\* Line 108 when os.listdir raises PermissionError: nothing catches it, so it
\* leaves witch (and main) with nothing printed.
EnumerateRaises ==
    /\ pc = "EXACT_LOOKUP"
    /\ path = None
    /\ ListingRaises(SearchPaths(environ))
    /\ pc' = "RAISED"
    /\ visited' = Append(visited, "RAISED")
    /\ UNCHANGED <<environ, files, command, path, executables, matches, out, ret, fvars>>

\* Line 110: get_close_matches iterates over the set, in whatever order the
\* set yields its elements.
Rank ==
    /\ pc = "ENUMERATE"
    /\ \E order \in Orders(executables) :
           matches' = GetCloseMatches(command, order, N, Cutoff)
    /\ pc' = "RANK"
    /\ visited' = Append(visited, "RANK")
    /\ UNCHANGED <<environ, files, command, path, executables, out, ret, fvars>>

\* Lines 111-125: if matches: the header and the table
FormatTable ==
    /\ pc = "RANK"
    /\ matches # <<>>
    /\ out' = out \o Table(environ, files, command, matches)
    /\ pc' = "FORMAT_TABLE"
    /\ visited' = Append(visited, "FORMAT_TABLE")
    /\ UNCHANGED <<environ, files, command, path, executables, matches, ret, fvars>>

\* Lines 126-127: else: print("Command not found and no close matches.")
PrintNone ==
    /\ pc = "RANK"
    /\ matches = <<>>
    /\ out' = Append(out, NoCloseMatches)
    /\ pc' = "PRINT_NONE"
    /\ visited' = Append(visited, "PRINT_NONE")
    /\ UNCHANGED <<environ, files, command, path, executables, matches, ret, fvars>>

\* Line 129: return None
ReturnNone ==
    /\ pc \in {"FORMAT_TABLE", "PRINT_NONE"}
    /\ ret' = None
    /\ pc' = "END"
    /\ visited' = Append(visited, "END")
    /\ UNCHANGED <<environ, files, command, path, executables, matches, out, fvars>>

(***************************************************************************)
(* The invocations checked                                                 *)
(***************************************************************************)

\* The names DirA may hold; DirB holds "ab" and "a<BEL>" (a name with a
\* control character), DirG "git", DirU "ab".
PoolA == {<<"a">>, <<"b">>, <<"b", "a">>, <<"b", "b">>}

FileSystems ==
    {   {[dir |-> DirA, name |-> n, exec |-> e] : n \in S}
            \cup {[dir |-> DirB, name |-> ab, exec |-> bx],
                  [dir |-> DirB, name |-> <<"a", "BEL">>, exec |-> FALSE],
                  [dir |-> DirG, name |-> git, exec |-> TRUE],
                  [dir |-> DirU, name |-> ab, exec |-> TRUE]}
        : S \in SUBSET PoolA, e \in BOOLEAN, bx \in BOOLEAN}

\* PATH: not set, empty, or a list of directories ("/n" does not exist).
Environments ==
    {[set |-> FALSE, val |-> <<>>], [set |-> TRUE, val |-> <<>>],
     [set |-> TRUE, val |-> DirA], [set |-> TRUE, val |-> DirG],
     [set |-> TRUE, val |-> DirA \o <<":">> \o DirB],
     [set |-> TRUE, val |-> DirA \o <<":">> \o DirG],
     [set |-> TRUE, val |-> <<"/", "n", ":">> \o DirA],
     [set |-> TRUE, val |-> DirU \o <<":">> \o DirA]}

Commands == {ab, gti, git, <<>>, PathJoin(DirG, git)}

WitchIdle ==
    /\ environ = [set |-> FALSE, val |-> <<>>]
    /\ files = {}
    /\ command = <<>>
    /\ pc = "IDLE"
    /\ path = None
    /\ executables = {}
    /\ matches = <<>>
    /\ out = <<>>
    /\ ret = None
    /\ visited = <<>>

\* witch(command) is entered: nothing looked up, nothing printed.
Init ==
    /\ environ \in Environments
    /\ files \in FileSystems
    /\ command \in Commands
    /\ pc = "START"
    /\ path = None
    /\ executables = {}
    /\ matches = <<>>
    /\ out = <<>>
    /\ ret = None
    /\ visited = <<"START">>
    /\ FnIdle

Next ==
    \/ ExactLookup
    \/ PrintPath
    \/ ReturnPath
    \/ Enumerate
    \/ EnumerateRaises
    \/ Rank
    \/ FormatTable
    \/ PrintNone
    \/ ReturnNone

Spec == Init /\ [][Next]_vars

(***************************************************************************)
(* The pure functions, each called on every input of a bounded set         *)
(***************************************************************************)

MaxPadLen == 3
MaxWidth == 4
MaxHlLen == 3
MaxWordLen == 2
MaxCands == 6
MaxSimLen == 3

\* pad_string(text, width)
PadTexts == StringsOver({"a", "WIDE", "ZW", "BEL", "ESC", "[", "9", "m"}, 0, MaxPadLen)
PadWidths == (0 - 1)..MaxWidth

InitPad == WitchIdle /\ fn = "pad_string" /\ arg1 \in PadTexts /\ arg2 \in PadWidths /\ res = <<>>

PadString ==
    /\ fn = "pad_string"
    /\ res = <<>>
    /\ res' = <<pad_string(arg1, arg2)>>
    /\ UNCHANGED <<wvars, fn, arg1, arg2>>

SpecPad == InitPad /\ [][PadString]_vars

\* highlight_differences(input_word, suggestion)
HlWords == StringsOver({"a", "b", "["}, 0, MaxHlLen)
HlSuggestions == StringsOver({"a", "b", "ESC", "[", "m"}, 0, MaxHlLen)

InitHighlight ==
    WitchIdle /\ fn = "highlight_differences" /\ arg1 \in HlWords /\ arg2 \in HlSuggestions
        /\ res = <<>>

Highlight ==
    /\ fn = "highlight_differences"
    /\ res = <<>>
    /\ res' = <<highlight_differences(arg1, arg2)>>
    /\ UNCHANGED <<wvars, fn, arg1, arg2>>

SpecHighlight == InitHighlight /\ [][Highlight]_vars

\* difflib.get_close_matches(command, executables, n=5, cutoff=0.4), the
\* set's iteration order being arg2.
RankWords == StringsOver({"a", "b"}, 0, MaxWordLen)
RankPool ==
    {<<"a">>, <<"b">>, <<"a", "b">>, <<"b", "a">>, <<"b", "b">>, <<"a", "a", "a", "b">>}
RankOrders ==
    UNION {Orders(S) : S \in {T \in SUBSET RankPool : Cardinality(T) <= MaxCands}}

InitRanker ==
    WitchIdle /\ fn = "get_close_matches" /\ arg1 \in RankWords /\ arg2 \in RankOrders
        /\ res = <<>>

CloseMatches ==
    /\ fn = "get_close_matches"
    /\ res = <<>>
    /\ res' = <<GetCloseMatches(arg1, arg2, N, Cutoff)>>
    /\ UNCHANGED <<wvars, fn, arg1, arg2>>

SpecRanker == InitRanker /\ [][CloseMatches]_vars

\* The similarity get_close_matches computes for the word arg1 and the
\* candidate arg2, and whether the candidate passes its test.
SimStrings == StringsOver({"a", "b", "c"}, 0, MaxSimLen)

InitSimilarity ==
    WitchIdle /\ fn = "ratio" /\ arg1 \in SimStrings /\ arg2 \in SimStrings /\ res = <<>>

Similarity ==
    /\ fn = "ratio"
    /\ res = <<>>
    /\ res' = <<[score |-> Ratio(arg2, arg1), close |-> IsClose(arg1, arg2, Cutoff)]>>
    /\ UNCHANGED <<wvars, fn, arg1, arg2>>

SpecSimilarity == InitSimilarity /\ [][Similarity]_vars

(***************************************************************************)
(* Properties                                                              *)
(***************************************************************************)

Range(s) == {s[k] : k \in 1..Len(s)}
Pos(s, x) == CHOOSE k \in 1..Len(s) : s[k] = x
IsPrefix(s, t) == Len(s) <= Len(t) /\ SubSeq(t, 1, Len(s)) = s
Went(p) == p \in Range(visited)

\* C1: whenever the exact lookup of the query returned a path, the run
\* prints that path and nothing else, returns it, and never enumerates the
\* search path, ranks candidates or prints the header, the table or the "no
\* close matches" line.
C1_ExactMatchShortCircuit ==
    (pc # "START" /\ path # None) =>
        /\ ~Went("ENUMERATE") /\ ~Went("RANK") /\ ~Went("FORMAT_TABLE")
        /\ ~Went("PRINT_NONE") /\ ~Went("RAISED")
        /\ executables = {} /\ matches = <<>>
        /\ out = (IF pc = "EXACT_LOOKUP" THEN <<>> ELSE <<path[1]>>)
        /\ (pc = "END" => ret = path
                          /\ visited = <<"START", "EXACT_LOOKUP", "PRINT_PATH", "END">>)

C1_Witness ==
    /\ pc = "END"
    /\ environ.set /\ command = ab
    /\ path = Some(PathJoin(DirA, ab)) \/ path = Some(PathJoin(DirB, ab))
    /\ out = <<path[1]>>
    /\ ret = path

AllowedRuns ==
    {<<"START", "EXACT_LOOKUP", "PRINT_PATH", "END">>,
     <<"START", "EXACT_LOOKUP", "ENUMERATE", "RANK", "PRINT_NONE", "END">>,
     <<"START", "EXACT_LOOKUP", "ENUMERATE", "RANK", "FORMAT_TABLE", "END">>}

PathShape == path # None /\ out = <<path[1]>>
TableShape ==
    /\ Len(out) >= 6
    /\ SubSeq(out, 1, 5) = <<(<<>>), DidYouMean, (<<>>), HeaderLine, SeparatorLine>>
NoneShape == out = <<NoCloseMatches>>

ThreeShapes ==
    /\ PathShape <=> path # None
    /\ TableShape <=> (path = None /\ matches # <<>>)
    /\ NoneShape <=> (path = None /\ matches = <<>>)
    /\ ~(PathShape /\ TableShape) /\ ~(PathShape /\ NoneShape) /\ ~(TableShape /\ NoneShape)

\* C2: every invocation goes START, EXACT_LOOKUP, then PRINT_PATH or
\* ENUMERATE, RANK and one of PRINT_NONE and FORMAT_TABLE, then END, each
\* once and nothing else; at END it has printed exactly one of the three
\* shapes: the path iff the lookup succeeded, the table iff it failed and the
\* ranked list is not empty, the "no close matches" line iff it failed and the
\* list is empty.
C2_SinglePassThreeShapes ==
    /\ \E r \in AllowedRuns : IsPrefix(visited, r)
    /\ pc = visited[Len(visited)]
    /\ pc = "END" => ThreeShapes

\* C2 on the runs in which os.listdir does not raise.
C2_UnlessListingRaises == Went("RAISED") \/ C2_SinglePassThreeShapes

PathIsUnsetOrEmpty == ~environ.set \/ environ.val = <<>>

\* C6 as claimed: with PATH unset or empty the exact lookup finds nothing
\* whatever the query, the candidate set is empty, the output is exactly the
\* "no close matches" line, witch returns None and raises nothing.
C6_Original ==
    PathIsUnsetOrEmpty =>
        /\ path = None
        /\ executables = {}
        /\ pc # "RAISED"
        /\ pc = "END" => (out = <<NoCloseMatches>> /\ ret = None)

\* C6 amended: with PATH unset or empty the candidate set is empty and
\* nothing is raised; the exact lookup finds nothing when PATH is the empty
\* string and the query has no directory part; and whenever the exact lookup
\* finds nothing the output is exactly the "no close matches" line and witch
\* returns None.
C6_EmptyPathTolerance ==
    PathIsUnsetOrEmpty =>
        /\ executables = {}
        /\ pc # "RAISED"
        /\ (environ.set /\ "/" \notin Range(command)) => path = None
        /\ (pc = "END" /\ path = None) =>
               /\ out = <<NoCloseMatches>>
               /\ ret = None
               /\ visited = <<"START", "EXACT_LOOKUP", "ENUMERATE", "RANK", "PRINT_NONE", "END">>

C6_Witness ==
    /\ ~environ.set
    /\ command = gti
    /\ pc = "END"
    /\ out = <<NoCloseMatches>>
    /\ ret = None

GitRowOnly(name) ==
    out = <<(<<>>), DidYouMean, (<<>>), HeaderLine, SeparatorLine,
            name \o Spaces(17) \o Bar \o PathJoin(DirG, git) \o Spaces(44)>>

ScenarioA == command = gti /\ path = None /\ matches = <<git>> /\ Went("FORMAT_TABLE")

\* C7 as claimed: for "gti", "git" being the only match, the table has one
\* row: 'g' as a matched run, then the two other letters of "git" as one
\* substituted run, and git's resolved path.
C7_Original ==
    ScenarioA =>
        GitRowOnly(ANSI_GREEN \o <<"g">> \o ANSI_RESET \o ANSI_RED \o <<"i", "t">> \o ANSI_RESET)

\* C7 amended: for "gti", "git" being the only match, the table has one row:
\* 'g' as a matched run, 'i' as an inserted run, 't' as a matched run, padded
\* to 20 columns, and git's resolved path padded to 50.
C7_ScenarioA ==
    ScenarioA =>
        GitRowOnly(ANSI_GREEN \o <<"g">> \o ANSI_RESET \o ANSI_MAGENTA \o <<"i">> \o ANSI_RESET
                       \o ANSI_GREEN \o <<"t">> \o ANSI_RESET)

C7_Witness == ScenarioA /\ pc = "END" /\ Len(out) = 6

\* The lines the table is claimed to start with, written out.
ExpectedHeader == SuggestedCommand \o Spaces(3) \o Bar \o Location \o Spaces(42)
ExpectedSeparator == [k \in 1..73 |-> "-"]

\* text followed by the spaces that padding to w visible columns adds:
\* max(0, w - visible width of the color-stripped text) of them.
PaddedTo(text, w) == text \o Spaces(Max({0, w - wcswidth(strip_ansi(text))}))

\* The row claimed for a match.
ExpectedRow(m) ==
    LET loc == IF Which(environ, files, m) = None THEN NotFoundInPath
               ELSE Which(environ, files, m)[1]
    IN  PaddedTo(highlight_differences(command, m), 20) \o Bar \o PaddedTo(loc, 50)

C10_WitnessUnprintable ==
    /\ pc = "END"
    /\ \E k \in 1..Len(matches) :
           /\ "BEL" \in Range(matches[k])
           /\ out[5 + k] = highlight_differences(command, matches[k]) \o Spaces(21) \o Bar
                               \o NotFoundInPath \o Spaces(31)

Returned == res # <<>>

\* The similarity the ranker gives candidate x for the word: the candidate is
\* the matcher's first sequence.
Score(word, x) == Ratio(x, word)
Passing(word, cands) == {x \in Range(cands) : RatioGE(Score(word, x), Cutoff)}
SameScore(word, x, y) ==
    ~RatioGT(Score(word, x), Score(word, y)) /\ ~RatioGT(Score(word, y), Score(word, x))

\* C3: the ranked list holds at most 5 names, each a candidate (once) whose
\* similarity to the query is at least 0.4; no candidate left out is strictly
\* more similar than one in the list; the list is in non-increasing order of
\* similarity; and it is empty exactly when no candidate reaches 0.4.
C3_RankerResult ==
    Returned =>
        LET r == res[1]
        IN  /\ Len(r) <= 5
            /\ \A k \in 1..Len(r) : r[k] \in Passing(arg1, arg2)
            /\ \A i, j \in 1..Len(r) : i # j => r[i] # r[j]
            /\ \A x \in Range(arg2) \ Range(r) : \A y \in Range(r) :
                   ~RatioGT(Score(arg1, x), Score(arg1, y))
            /\ \A i, j \in 1..Len(r) :
                   i < j => RatioGE(Score(arg1, r[i]), Score(arg1, r[j]))
            /\ r = <<>> <=> Passing(arg1, arg2) = {}

C3_Witness ==
    /\ Returned
    /\ Len(res[1]) = 5
    /\ Cardinality(Passing(arg1, arg2)) = 6
    /\ \E i, j \in 1..5 : RatioGT(Score(arg1, res[1][i]), Score(arg1, res[1][j]))

C3_WitnessBelowCutoff ==
    /\ Returned
    /\ res[1] # <<>>
    /\ \E x \in Range(arg2) : Score(arg1, x)[1] > 0 /\ x \notin Passing(arg1, arg2)

\* C9 as claimed: candidates of equal similarity appear in the ranked list in
\* the order the iteration over the set yielded them, and when the 5-name
\* limit cuts through such a group the ones yielded first are kept.
C9_Original ==
    Returned =>
        LET r == res[1]
        IN  /\ \A i, j \in 1..Len(r) :
                   (i < j /\ SameScore(arg1, r[i], r[j])) => Pos(arg2, r[i]) < Pos(arg2, r[j])
            /\ \A x \in Passing(arg1, arg2) \ Range(r) : \A y \in Range(r) :
                   SameScore(arg1, x, y) => Pos(arg2, y) < Pos(arg2, x)

\* C9 amended: candidates of equal similarity appear in the ranked list in
\* descending order of their names (str comparison), and when the 5-name
\* limit cuts through such a group the greatest names are kept; the ranked
\* list is the first min(5, number of candidates at or above 0.4) of them by
\* (similarity, name) descending, whatever the iteration order.
C9_TiesByName ==
    Returned =>
        LET r == res[1]
        IN  /\ Len(r) = Min({5, Cardinality(Passing(arg1, arg2))})
            /\ Range(r) \subseteq Passing(arg1, arg2)
            /\ \A i, j \in 1..Len(r) :
                   i < j => \/ RatioGT(Score(arg1, r[i]), Score(arg1, r[j]))
                            \/ (SameScore(arg1, r[i], r[j]) /\ StrLess(r[j], r[i]))
            /\ \A x \in Passing(arg1, arg2) \ Range(r) : \A y \in Range(r) :
                   \/ RatioGT(Score(arg1, y), Score(arg1, x))
                   \/ (SameScore(arg1, x, y) /\ StrLess(x, y))

\* Two tied names that the iteration yields in ascending order come out in
\* descending order, and a tied name yielded first is cut.
C9_Witness ==
    /\ Returned
    /\ Len(res[1]) = 5
    /\ \E i, j \in 1..5 :
           /\ i < j
           /\ SameScore(arg1, res[1][i], res[1][j])
           /\ Pos(arg2, res[1][i]) > Pos(arg2, res[1][j])
    /\ \E x \in Passing(arg1, arg2) \ Range(res[1]) : \E y \in Range(res[1]) :
           SameScore(arg1, x, y) /\ Pos(arg2, x) < Pos(arg2, y)

Styles == {ANSI_GREEN, ANSI_RED, ANSI_MAGENTA}

\* The pieces of text cut after the positions of `cuts`, left to right.
Pieces(text, cuts) ==
    LET ends   == cuts \cup {Len(text)}
        sorted == CHOOSE s \in [1..Cardinality(ends) -> ends] :
                      \A i, j \in 1..Cardinality(ends) : i < j => s[i] < s[j]
    IN  [k \in 1..Len(sorted) |->
            SubSeq(text, (IF k = 1 THEN 0 ELSE sorted[k - 1]) + 1, sorted[k])]

RECURSIVE StyledRuns(_, _)
StyledRuns(pieces, styles) ==
    IF pieces = <<>> THEN <<>>
    ELSE Head(styles) \o Head(pieces) \o ANSI_RESET \o StyledRuns(Tail(pieces), Tail(styles))

\* text is a concatenation of styled runs whose contents, in order, are
\* consecutive non-empty pieces of candidate that make up candidate.
IsStyled(text, candidate) ==
    IF candidate = <<>> THEN text = <<>>
    ELSE \E cuts \in SUBSET (1..(Len(candidate) - 1)) :
             \E styles \in [1..(Cardinality(cuts) + 1) -> Styles] :
                 text = StyledRuns(Pieces(candidate, cuts), styles)

HasColorSequence(text) == strip_ansi(text) # text

\* C4 as claimed: the result is a concatenation of styled runs over
\* consecutive pieces of candidate, and removing the color sequences from it
\* (strip_ansi) gives back candidate, for every query and candidate.
C4_Original ==
    Returned => (IsStyled(res[1], arg2) /\ strip_ansi(res[1]) = arg2)

\* C4 amended: the result is a concatenation of styled runs (a style
\* marker, a piece of candidate, the reset marker) over consecutive pieces
\* that make up candidate, each character in exactly one run; and for a
\* candidate that holds no color sequence of its own, removing the color
\* sequences from the result (strip_ansi) gives back candidate.
C4_HighlightCompleteness ==
    Returned =>
        /\ IsStyled(res[1], arg2)
        /\ ~HasColorSequence(arg2) => strip_ansi(res[1]) = arg2

C4_Witness ==
    /\ Returned
    /\ Len(arg2) = 3
    /\ ~HasColorSequence(arg2)
    /\ \E i, j, k \in 1..Len(GetOpcodes(arg1, arg2)) :
           /\ GetOpcodes(arg1, arg2)[i][1] = "delete"
           /\ GetOpcodes(arg1, arg2)[j][1] = "insert"
           /\ GetOpcodes(arg1, arg2)[k][1] = "equal"
    /\ strip_ansi(res[1]) = arg2

C4_WitnessReplace ==
    /\ Returned
    /\ \E k \in 1..Len(GetOpcodes(arg1, arg2)) : GetOpcodes(arg1, arg2)[k][1] = "replace"
    /\ "ESC" \in Range(arg2)
    /\ strip_ansi(res[1]) = arg2

\* C5: pad_string(s, w) is s followed by max(0, w - visible width of the
\* color-stripped s) spaces; so when w is at least that width the result's
\* visible width (of its color-stripped form) is exactly w, and when the
\* width exceeds w the result is s, unchanged.
C5_WidthAwarePadding ==
    Returned =>
        LET vw == wcswidth(strip_ansi(arg1))
        IN  /\ res[1] = arg1 \o Spaces(Max({0, arg2 - vw}))
            /\ arg2 >= vw => wcswidth(strip_ansi(res[1])) = arg2
            /\ vw > arg2 => res[1] = arg1

\* C5 on the strings whose color-stripped form has only printable
\* characters.
C5_OnPrintable ==
    (Returned /\ \A k \in 1..Len(strip_ansi(arg1)) : WcWidth(strip_ansi(arg1)[k]) >= 0)
        => C5_WidthAwarePadding

IsOne(r) == r[2] > 0 /\ r[1] = r[2]
IsZero(r) == r[2] > 0 /\ r[1] = 0
Disjoint(a, b) == Range(a) \cap Range(b) = {}

\* C8 as claimed: similarity(a, a) = 1.0 for every a, the empty string too,
\* and similarity(a, b) = 0.0 for every a, b that share no character; a
\* candidate equal to the query clears the cutoff and one that shares no
\* character with it does not.
C8_Original ==
    Returned =>
        /\ arg1 = arg2 => (IsOne(res[1].score) /\ res[1].close)
        /\ Disjoint(arg1, arg2) => (IsZero(res[1].score) /\ ~res[1].close)

\* C8 amended: similarity(a, a) = 1.0 for every a, the empty string too, and
\* similarity(a, b) = 0.0 for every a, b that share no character and are not
\* both empty; a candidate equal to the query clears the cutoff and one that
\* shares no character with it (not both empty) does not.
C8_SimilarityBounds ==
    Returned =>
        /\ arg1 = arg2 => (IsOne(res[1].score) /\ res[1].close)
        /\ (Disjoint(arg1, arg2) /\ (arg1 # <<>> \/ arg2 # <<>>))
               => (IsZero(res[1].score) /\ ~res[1].close)

C8_WitnessEmpty ==
    /\ Returned
    /\ arg1 = <<>> /\ arg2 = <<>>
    /\ IsOne(res[1].score)

C8_WitnessEqual ==
    /\ Returned
    /\ Len(arg1) = 3 /\ arg1 = arg2
    /\ IsOne(res[1].score) /\ res[1].close

C8_Witness ==
    /\ Returned
    /\ Len(arg1) = 3 /\ Len(arg2) = 3 /\ Disjoint(arg1, arg2)
    /\ IsZero(res[1].score) /\ ~res[1].close

=============================================================================
